---- MODULE Spec2Model ----
(***************************************************************************)
(* Model of the Cloudinary storage backend (utils/cloudinary_storage.py):  *)
(* CloudinaryStorage and its media / thumbnail variants, together with the *)
(* remote image service they call.  Python strings are sequences of        *)
(* one-character strings, so that splitext, split, startswith and the      *)
(* substring test are computed as the code computes them.                  *)
(***************************************************************************)
EXTENDS Integers, Sequences, FiniteSets, TLC

\* ------------------------------------------------------------------------
\* Python values and string primitives

\* Python's None; no character sequence equals it (every character is a
\* one-character string)
NoneVal == <<"None">>

\* `not name` of Python: None and '' are falsy
Falsy(v) == v = NoneVal \/ v = <<>>

UpperChars == <<"A","B","C","D","E","F","G","H","I","J","K","L","M",
                "N","O","P","Q","R","S","T","U","V","W","X","Y","Z">>

LowerChars == <<"a","b","c","d","e","f","g","h","i","j","k","l","m",
                "n","o","p","q","r","s","t","u","v","w","x","y","z">>

LowerChar(c) ==
  IF \E i \in 1..26 : UpperChars[i] = c
    THEN LowerChars[CHOOSE i \in 1..26 : UpperChars[i] = c]
    ELSE c

\* str.lower()
Lower(s) == [i \in 1..Len(s) |-> LowerChar(s[i])]

\* str.rfind(c), 1-based; 0 when c does not occur
RFind(s, c) ==
  IF \E i \in 1..Len(s) : s[i] = c
    THEN CHOOSE i \in 1..Len(s) : s[i] = c /\ \A j \in (i+1)..Len(s) : s[j] # c
    ELSE 0

\* str.startswith(pre)
StartsWith(s, pre) == Len(pre) <= Len(s) /\ SubSeq(s, 1, Len(pre)) = pre

\* `sub in s`
Contains(s, sub) ==
  \E i \in 1..(Len(s) - Len(sub) + 1) : SubSeq(s, i, i + Len(sub) - 1) = sub

\* str.lstrip('.')
RECURSIVE LStripDot(_)
LStripDot(s) ==
  IF s # <<>> /\ Head(s) = "." THEN LStripDot(Tail(s)) ELSE s

\* str.split('/'): the list of the segments between separators
RECURSIVE SplitSlash(_)
SplitSlash(s) ==
  IF \E i \in 1..Len(s) : s[i] = "/"
    THEN LET k == CHOOSE i \in 1..Len(s) : s[i] = "/" /\ \A j \in 1..(i-1) : s[j] # "/"
         IN  <<SubSeq(s, 1, k - 1)>> \o SplitSlash(SubSeq(s, k + 1, Len(s)))
    ELSE <<s>>

\* os.path.splitext (posixpath): the extension starts at the last dot of the
\* last path segment, unless that segment has only leading dots before it
SplitExt(p) ==
  LET sepIndex == RFind(p, "/")
      dotIndex == RFind(p, ".")
  IN  IF dotIndex > sepIndex
         /\ \E k \in (sepIndex + 1)..(dotIndex - 1) : p[k] # "."
        THEN <<SubSeq(p, 1, dotIndex - 1), SubSeq(p, dotIndex, Len(p))>>
        ELSE <<p, <<>>>>

\* f"{folder}/{public_id}"
Join(folder, public_id) == folder \o <<"/">> \o public_id

CloudinaryHost == <<"c","l","o","u","d","i","n","a","r","y",".","c","o","m">>

\* _extract_public_id whose hosted-URL branch forgets the folder prefix
ExtractPublicId_UrlNoFolder(folder, name) ==
  IF Falsy(name) THEN NoneVal
  ELSE IF StartsWith(name, folder \o <<"/">>) THEN SplitExt(name)[1]
  ELSE IF Contains(name, CloudinaryHost) /\ Len(SplitSlash(name)) >= 2
    THEN LET parts == SplitSlash(name)
         IN  SplitExt(parts[Len(parts)])[1]
  ELSE LET public_id == SplitExt(name)[1]
       IN  IF Contains(public_id, <<"/">>) /\ ~StartsWith(public_id, folder)
             THEN public_id
           ELSE IF StartsWith(public_id, folder) THEN public_id
           ELSE Join(folder, public_id)

\* _extract_public_id that drops the folder of an already prefixed name
ExtractPublicId_DropFolder(folder, name) ==
  IF Falsy(name) THEN NoneVal
  ELSE IF StartsWith(name, folder \o <<"/">>)
    THEN SplitExt(SubSeq(name, Len(folder) + 2, Len(name)))[1]
  ELSE IF Contains(name, CloudinaryHost) /\ Len(SplitSlash(name)) >= 2
    THEN LET parts == SplitSlash(name)
             filename == parts[Len(parts)]
         IN  Join(folder, SplitExt(filename)[1])
  ELSE LET public_id == SplitExt(name)[1]
       IN  IF Contains(public_id, <<"/">>) /\ ~StartsWith(public_id, folder)
             THEN public_id
           ELSE IF StartsWith(public_id, folder) THEN public_id
           ELSE Join(folder, public_id)

\* CloudinaryStorage._extract_public_id
ExtractPublicId(folder, name) ==
  IF Falsy(name) THEN NoneVal
  ELSE IF StartsWith(name, folder \o <<"/">>) THEN SplitExt(name)[1]
  ELSE IF Contains(name, CloudinaryHost) /\ Len(SplitSlash(name)) >= 2
    THEN LET parts == SplitSlash(name)
             filename == parts[Len(parts)]
         IN  Join(folder, SplitExt(filename)[1])
  ELSE LET public_id == SplitExt(name)[1]
       IN  IF Contains(public_id, <<"/">>) /\ ~StartsWith(public_id, folder)
             THEN public_id
           ELSE IF StartsWith(public_id, folder) THEN public_id
           ELSE Join(folder, public_id)

\* ------------------------------------------------------------------------
\* Saving: identifier generation, format detection, upload options

Digits == {"0","1","2","3","4","5","6","7","8","9"}

\* characters a sanitized filename stem may keep
SafeChars == {LowerChars[i] : i \in 1..26} \cup Digits \cup {"_", "-"}

\* providers.models.sanitize_filename: the stem is lower-cased and every
\* character outside [a-z0-9_-] becomes "-"; the extension is kept
SanitizeFilename(filename) ==
  LET parts == SplitExt(filename)
      stem == Lower(parts[1])
  IN  [i \in 1..Len(stem) |-> IF stem[i] \in SafeChars THEN stem[i] ELSE "-"]
      \o Lower(parts[2])

\* length of the random suffix, str(uuid.uuid4())[:8]
SuffixLen == 8

\* CloudinaryStorage._generate_public_id, unique_id being the uuid prefix
GeneratePublicId(filename, unique_id) ==
  SplitExt(SanitizeFilename(filename))[1] \o <<"_">> \o unique_id

jpg  == <<"j","p","g">>
jpeg == <<"j","p","e","g">>
png  == <<"p","n","g">>
gif  == <<"g","i","f">>
webp == <<"w","e","b","p">>
svg  == <<"s","v","g">>

\* format_mapping of _save
FormatKeys == {jpg, jpeg, png, gif, webp, svg}

format_mapping == [k \in FormatKeys |-> IF k = jpeg THEN jpg ELSE k]

FormatValues == {format_mapping[k] : k \in FormatKeys}

\* the content_type _save reads: only an UploadedFile declares one
ContentType(content) ==
  IF content.uploaded THEN content.content_type ELSE NoneVal

\* the 'format' upload option _save computes (NoneVal: option not set)
DetectFormat(name, content_type) ==
  LET file_ext == LStripDot(Lower(SplitExt(name)[2]))
      byExt == IF file_ext \in FormatKeys THEN format_mapping[file_ext] ELSE NoneVal
      parts == SplitSlash(content_type)
      detected_format == parts[Len(parts)]
  IN  IF ~Falsy(content_type) /\ Contains(content_type, <<"/">>)
         /\ detected_format \in FormatValues
        THEN detected_format
        ELSE byExt

\* upload_options that let an upload replace an existing resource
UploadOptions_Overwrite(folder, public_id, format) ==
  LET base == [public_id |-> public_id, resource_type |-> "image",
               overwrite |-> TRUE, folder |-> folder,
               use_filename |-> FALSE, unique_filename |-> FALSE]
  IN  IF format = NoneVal THEN base ELSE base @@ [format |-> format]

\* upload_options of _save
UploadOptions(folder, public_id, format) ==
  LET base == [public_id |-> public_id, resource_type |-> "image",
               overwrite |-> FALSE, folder |-> folder,
               use_filename |-> FALSE, unique_filename |-> FALSE]
  IN  IF format = NoneVal THEN base ELSE base @@ [format |-> format]

\* ------------------------------------------------------------------------
\* The remote service: a map from public id to the stored byte count

\* cloudinary.uploader.upload: the resource lands at folder/public_id; with
\* overwrite=False an existing resource is left as it is
RemoteUpload(remote, options, bytes) ==
  LET id == Join(options.folder, options.public_id)
  IN  IF id \in DOMAIN remote /\ ~options.overwrite
        THEN remote
        ELSE [i \in DOMAIN remote \cup {id} |-> IF i = id THEN bytes ELSE remote[i]]

\* cloudinary.uploader.destroy
RemoteDestroy(remote, public_id) ==
  [id \in DOMAIN remote \ {public_id} |-> remote[id]]

\* ------------------------------------------------------------------------
\* Outcomes of the storage operations.  An outcome records what the caller
\* sees (result, raised, error), the remote calls issued, in order, and the
\* remote state left behind.  fault is what the remote call does when it is
\* issued: "none" (answers truthfully), "notfound" (raises NotFound) or
\* "network" (raises any other exception).

Faults == {"none", "notfound", "network"}

Outcome(result, raised, error, calls, remote) ==
  [result |-> result, raised |-> raised, error |-> error,
   calls |-> calls, remote |-> remote]

\* CloudinaryStorage._save
SaveOutcome(folder, remote, name, content, unique_id, fault) ==
  LET public_id == GeneratePublicId(name, unique_id)
      upload_options ==
        UploadOptions(folder, public_id, DetectFormat(name, ContentType(content)))
      call == [api |-> "upload", options |-> upload_options]
  IN  IF fault = "none"
        THEN Outcome(Join(folder, public_id), FALSE, NoneVal, <<call>>,
                     RemoteUpload(remote, upload_options, content.bytes))
        ELSE Outcome(NoneVal, TRUE,
                     [text |-> "Failed to upload", name |-> name, cause |-> fault],
                     <<call>>, remote)

\* delete that swallows NotFound only
DeleteOutcome_Reraise(folder, remote, name, fault) ==
  IF Falsy(name) THEN Outcome(NoneVal, FALSE, NoneVal, <<>>, remote)
  ELSE LET public_id == ExtractPublicId(folder, name)
           call == [api |-> "destroy", public_id |-> public_id,
                    resource_type |-> "image", invalidate |-> TRUE]
       IN  IF Falsy(public_id) THEN Outcome(NoneVal, FALSE, NoneVal, <<>>, remote)
           ELSE IF fault = "none"
             THEN Outcome(NoneVal, FALSE, NoneVal, <<call>>,
                          RemoteDestroy(remote, public_id))
             ELSE Outcome(NoneVal, fault # "notfound", NoneVal, <<call>>, remote)

\* CloudinaryStorage.delete
DeleteOutcome(folder, remote, name, fault) ==
  IF Falsy(name) THEN Outcome(NoneVal, FALSE, NoneVal, <<>>, remote)
  ELSE LET public_id == ExtractPublicId(folder, name)
           call == [api |-> "destroy", public_id |-> public_id,
                    resource_type |-> "image", invalidate |-> TRUE]
       IN  IF Falsy(public_id) THEN Outcome(NoneVal, FALSE, NoneVal, <<>>, remote)
           ELSE IF fault = "none"
             THEN Outcome(NoneVal, FALSE, NoneVal, <<call>>,
                          RemoteDestroy(remote, public_id))
             ELSE Outcome(NoneVal, FALSE, NoneVal, <<call>>, remote)

\* exists that takes a failed lookup other than NotFound for a resource
ExistsOutcome_ErrorTrue(folder, remote, name, fault) ==
  IF Falsy(name) THEN Outcome(FALSE, FALSE, NoneVal, <<>>, remote)
  ELSE LET public_id == ExtractPublicId(folder, name)
           call == [api |-> "resource", public_id |-> public_id,
                    resource_type |-> "image"]
       IN  IF Falsy(public_id) THEN Outcome(FALSE, FALSE, NoneVal, <<>>, remote)
           ELSE Outcome(IF fault = "none" THEN public_id \in DOMAIN remote
                        ELSE fault # "notfound",
                        FALSE, NoneVal, <<call>>, remote)

\* CloudinaryStorage.exists
ExistsOutcome(folder, remote, name, fault) ==
  IF Falsy(name) THEN Outcome(FALSE, FALSE, NoneVal, <<>>, remote)
  ELSE LET public_id == ExtractPublicId(folder, name)
           call == [api |-> "resource", public_id |-> public_id,
                    resource_type |-> "image"]
       IN  IF Falsy(public_id) THEN Outcome(FALSE, FALSE, NoneVal, <<>>, remote)
           ELSE Outcome(fault = "none" /\ public_id \in DOMAIN remote,
                        FALSE, NoneVal, <<call>>, remote)

\* CloudinaryStorage.size
SizeOutcome(folder, remote, name, fault) ==
  IF Falsy(name) THEN Outcome(0, FALSE, NoneVal, <<>>, remote)
  ELSE LET public_id == ExtractPublicId(folder, name)
           call == [api |-> "resource", public_id |-> public_id,
                    resource_type |-> "image"]
       IN  IF Falsy(public_id) THEN Outcome(0, FALSE, NoneVal, <<>>, remote)
           ELSE Outcome(IF fault = "none" /\ public_id \in DOMAIN remote
                          THEN remote[public_id] ELSE 0,
                        FALSE, NoneVal, <<call>>, remote)

Variants == {"base", "media", "thumbnail"}

\* CloudinaryMediaStorage.__init__: self.default_transformations
default_transformations ==
  [quality |-> "auto:good", fetch_format |-> "auto", crop |-> "limit",
   width |-> 2000, height |-> 2000]

\* CloudinaryThumbnailStorage.__init__: self.thumbnail_transformations
thumbnail_transformations ==
  [quality |-> "auto:good", fetch_format |-> "auto", crop |-> "fill",
   width |-> 300, height |-> 300, gravity |-> "auto"]

\* url options in which the thumbnail class shrinks like the base class
UrlOptions_ThumbnailLimit(variant) ==
  IF variant = "thumbnail"
    THEN [secure |-> TRUE, resource_type |-> "image", quality |-> "auto:good",
          crop |-> "limit", width |-> 300, height |-> 300, gravity |-> "auto"]
    ELSE [secure |-> TRUE, resource_type |-> "image", quality |-> "auto:good",
          crop |-> "limit", width |-> 2000, height |-> 2000]

\* url options in which the thumbnail class passes its
\* thumbnail_transformations attribute
UrlOptions_ThumbnailAttribute(variant) ==
  IF variant = "thumbnail"
    THEN [secure |-> TRUE, resource_type |-> "image"] @@ thumbnail_transformations
    ELSE [secure |-> TRUE, resource_type |-> "image", quality |-> "auto:good",
          crop |-> "limit", width |-> 2000, height |-> 2000]

\* the options dict each class's url passes to build_url
UrlOptions(variant) ==
  CASE variant = "base" ->
         [secure |-> TRUE, resource_type |-> "image", quality |-> "auto:good",
          crop |-> "limit", width |-> 2000, height |-> 2000]
    [] variant = "media" ->
         [secure |-> TRUE, resource_type |-> "image", quality |-> "auto:good",
          crop |-> "limit", width |-> 2000, height |-> 2000]
    [] variant = "thumbnail" ->
         [secure |-> TRUE, resource_type |-> "image", quality |-> "auto:good",
          crop |-> "fill", width |-> 300, height |-> 300, gravity |-> "auto"]

\* what CloudinaryImage(public_id).build_url(**options) returns
BuildUrl(public_id, options) == <<"https", public_id, options>>

\* url without its two guards against an absent reference
UrlOutcome_Unguarded(variant, folder, remote, name, fault) ==
  LET public_id == ExtractPublicId(folder, name)
      options == UrlOptions(variant)
      call == [api |-> "build_url", public_id |-> public_id,
               options |-> options]
  IN  IF fault = "none"
        THEN Outcome(BuildUrl(public_id, options), FALSE, NoneVal,
                     <<call>>, remote)
        ELSE Outcome(<<>>, FALSE, NoneVal, <<call>>, remote)

\* CloudinaryStorage.url and its overrides in the two subclasses
UrlOutcome(variant, folder, remote, name, fault) ==
  IF Falsy(name) THEN Outcome(<<>>, FALSE, NoneVal, <<>>, remote)
  ELSE LET public_id == ExtractPublicId(folder, name)
           options == UrlOptions(variant)
           call == [api |-> "build_url", public_id |-> public_id,
                    options |-> options]
       IN  IF Falsy(public_id) THEN Outcome(<<>>, FALSE, NoneVal, <<>>, remote)
           ELSE IF fault = "none"
             THEN Outcome(BuildUrl(public_id, options), FALSE, NoneVal,
                          <<call>>, remote)
             ELSE Outcome(<<>>, FALSE, NoneVal, <<call>>, remote)

\* ------------------------------------------------------------------------
\* Inputs

media == <<"m","e","d","i","a">>

\* settings.CLOUDINARY_FOLDER: the default and a nested folder
Folders == {media, <<"b","/","p">>}

\* most resources the remote service holds
MaxResources == 1

UniqueIds == {[i \in 1..SuffixLen |-> "0"], <<"d","5","f","2","6","1","e","9">>}

\* original filenames: "A b.PNG", "a b.jpeg", "a.b.txt"
FileNames == {<<"A"," ","b",".","P","N","G">>, <<"a"," ","b",".","j","p","e","g">>,
              <<"a",".","b",".","t","x","t">>}

image == <<"i","m","a","g","e","/">>

\* file contents: a plain file object, and uploads declaring image/jpeg,
\* image/gif and text/plain
Contents ==
  {[uploaded |-> FALSE, content_type |-> image \o gif, bytes |-> 3],
   [uploaded |-> TRUE, content_type |-> image \o jpeg, bytes |-> 3],
   [uploaded |-> TRUE, content_type |-> image \o gif, bytes |-> 3],
   [uploaded |-> TRUE, content_type |-> <<"t","e","x","t","/","p","l","a","i","n">>,
    bytes |-> 3]}

NoContent == [uploaded |-> FALSE, content_type |-> NoneVal, bytes |-> 0]

abc123 == <<"a","b","c","1","2","3">>

Hosts == {<<"r","e","s",".">> \o CloudinaryHost, <<"c","d","n",".","i","o">>}

\* "https://{host}/v1/{folder}/{id}.png"
HostedUrl(host, folder, id) ==
  <<"h","t","t","p","s",":","/","/">> \o host \o <<"/","v","1","/">>
    \o folder \o <<"/">> \o id \o <<".">> \o png

\* the three historical formats of a reference to id
FolderPrefixed(folder, id) == Join(folder, id)

BareFilename(id) == id \o <<".">> \o png

\* identifiers: "abc123", "x_1", "mediakit", "a.b" and ".env"
Ids == {abc123, <<"x","_","1">>, media \o <<"k","i","t">>, <<"a",".","b">>,
        <<".","e","n","v">>}

\* values _extract_public_id is applied to
ExtractNames ==
  {NoneVal, <<>>, CloudinaryHost}
    \cup {FolderPrefixed(G, id) : G \in Folders, id \in Ids}
    \cup {FolderPrefixed(G, BareFilename(id)) : G \in Folders, id \in Ids}
    \cup {HostedUrl(h, G, id) : h \in Hosts, G \in Folders, id \in Ids}
    \cup {BareFilename(id) : id \in Ids}
    \cup Ids

\* references the storage operations are called with: an absent one, an
\* empty one, a legacy bare filename, the references of the resources the
\* remote service holds, and the reference of the previous call
RefNames(remote, last) ==
  {NoneVal, <<>>, BareFilename(abc123)}
    \cup DOMAIN remote
    \cup (IF last.op \in {"delete", "exists", "size", "url"}
            THEN {last.name} ELSE {})

\* ------------------------------------------------------------------------
\* update_cname_config.py: the DNS targets of the providers' custom domains

\* most rows of the ServiceProvider table
MaxProviders == 2

\* most runs of update_cname_records
MaxRuns == 2

\* settings.PROVIDER_SUBDOMAIN_BASE, "nextslot.in"
base_domain == <<"n","e","x","t","s","l","o","t",".","i","n">>

PkChars == <<"1","2","3","4","5","6","7","8","9">>

\* the booking slug (unique_booking_url) of the provider with key pk
Slug(pk) == <<"s", PkChars[pk]>>

\* providers.domain_utils.generate_unique_cname_target:
\* "{unique_booking_url}.{PROVIDER_SUBDOMAIN_BASE}"
generate_unique_cname_target(provider) ==
  provider.unique_booking_url \o <<".">> \o base_domain

\* providers.domain_utils.generate_unique_txt_record_name: a name made of
\* the provider's booking slug
generate_unique_txt_record_name(provider) ==
  <<"_","n","s","-">> \o provider.unique_booking_url

\* a target left by an earlier configuration
StaleValue == <<"o","l","d",".","a","p","p">>

\* a custom domain, "d.io"
SomeDomain == <<"d",".","i","o">>

\* the rows the provider with key pk may have before a run
Rows(pk) ==
  LET fresh == [unique_booking_url |-> Slug(pk)]
  IN  {[custom_domain |-> d, unique_booking_url |-> Slug(pk),
        cname_target |-> c, txt_record_name |-> t] :
         d \in {NoneVal, <<>>, SomeDomain},
         c \in {<<>>, StaleValue, generate_unique_cname_target(fresh)},
         t \in {<<>>, StaleValue, generate_unique_txt_record_name(fresh)}}

\* the tables of MaxProviders rows
Tables ==
  {t \in [1..MaxProviders ->
            UNION {Rows(pk) : pk \in 1..MaxProviders}] :
     \A pk \in 1..MaxProviders : t[pk] \in Rows(pk)}

\* filter(custom_domain__isnull=False).exclude(custom_domain='')
HasCustomDomain(row) == row.custom_domain # NoneVal /\ row.custom_domain # <<>>

\* Model.save(update_fields=...): only the named fields reach the table
ModelSave(row, instance, update_fields) ==
  [f \in DOMAIN row |->
     IF \E i \in 1..Len(update_fields) : update_fields[i] = f
       THEN instance[f] ELSE row[f]]

\* the loop body that sets txt_record_name but leaves it out of updates
UpdateProvider_ForgetTxt(row) ==
  LET cname_target == generate_unique_cname_target(row)
      txt_name == generate_unique_txt_record_name(row)
      updates == IF row.cname_target # cname_target
                   THEN <<"cname_target">> ELSE <<>>
      instance == [row EXCEPT !.cname_target = cname_target,
                              !.txt_record_name = txt_name]
  IN  [row |-> ModelSave(row, instance, updates), updates |-> updates]

\* the loop body of update_cname_records for one provider: the row it
\* leaves in the table and the update_fields of its save (<<>>: no save)
UpdateProvider(row) ==
  LET cname_target == generate_unique_cname_target(row)
      txt_name == generate_unique_txt_record_name(row)
      updates ==
        (IF row.cname_target # cname_target THEN <<"cname_target">> ELSE <<>>)
          \o (IF row.txt_record_name # txt_name
                THEN <<"txt_record_name">> ELSE <<>>)
      instance == [row EXCEPT !.cname_target = cname_target,
                              !.txt_record_name = txt_name]
  IN  [row |-> ModelSave(row, instance, updates), updates |-> updates]

\* the saves of one run, in the order of the loop
RECURSIVE Writes(_, _)
Writes(table, pk) ==
  IF pk \notin DOMAIN table THEN <<>>
  ELSE (IF HasCustomDomain(table[pk]) /\ UpdateProvider(table[pk]).updates # <<>>
          THEN <<[pk |-> pk, update_fields |-> UpdateProvider(table[pk]).updates]>>
          ELSE <<>>)
       \o Writes(table, pk + 1)

\* update_cname_records(): the table it leaves and the saves it issued
UpdateCnameRecords(table) ==
  [providers |-> [pk \in DOMAIN table |->
                   IF HasCustomDomain(table[pk])
                     THEN UpdateProvider(table[pk]).row ELSE table[pk]],
   writes |-> Writes(table, 1)]

\* ------------------------------------------------------------------------
\* State

VARIABLES
  folder,    \* settings.CLOUDINARY_FOLDER
  remote,    \* the remote service: public id -> bytes
  last,      \* the last operation: its arguments and its outcome
  providers, \* the ServiceProvider table: primary key -> row
  run        \* update_cname_records: runs so far and the saves they issued

vars == <<folder, remote, last, providers, run>>

Done(op, variant, name, orig, content, fault, out) ==
  [op |-> op, variant |-> variant, name |-> name, orig |-> orig, content |-> content,
   fault |-> fault, result |-> out.result, raised |-> out.raised,
   error |-> out.error, calls |-> out.calls]

NoRun == [n |-> 0, writes |-> <<>>, total |-> 0]

Init ==
  /\ folder \in Folders
  /\ remote = <<>>
  /\ last = Done("init", "base", NoneVal, NoneVal, NoContent, "none",
                 Outcome(NoneVal, FALSE, NoneVal, <<>>, <<>>))
  /\ providers = <<>>
  /\ run = NoRun

\* get_available_name(name): a freshly generated identifier
GetAvailableName ==
  \E name \in FileNames, unique_id \in UniqueIds :
    /\ last' = Done("get_available_name", "base", name, name, NoContent, "none",
                    Outcome(GeneratePublicId(name, unique_id), FALSE, NoneVal,
                            <<>>, remote))
    /\ UNCHANGED <<folder, remote, providers, run>>

Save(name, orig) ==
  /\ Cardinality(DOMAIN remote) < MaxResources
  /\ \E content \in Contents, unique_id \in UniqueIds,
        fault \in {"none", "network"} :
       LET out == SaveOutcome(folder, remote, name, content, unique_id, fault)
       IN  /\ last' = Done("save", "base", name, orig, content, fault, out)
           /\ remote' = out.remote
  /\ UNCHANGED <<folder, providers, run>>

\* _save called with the original filename
SaveDirect == \E name \in FileNames : Save(name, name)

\* _save called with the name get_available_name returned, as Storage.save does
SaveAvailable ==
  /\ last.op = "get_available_name"
  /\ Save(last.result, last.orig)

Delete ==
  \E name \in RefNames(remote, last), fault \in Faults :
    LET out == DeleteOutcome(folder, remote, name, fault)
    IN  /\ last' = Done("delete", "base", name, name, NoContent, fault, out)
        /\ remote' = out.remote
        /\ UNCHANGED <<folder, providers, run>>

Exists ==
  \E name \in RefNames(remote, last), fault \in Faults :
    LET out == ExistsOutcome(folder, remote, name, fault)
    IN  /\ last' = Done("exists", "base", name, name, NoContent, fault, out)
        /\ remote' = out.remote
        /\ UNCHANGED <<folder, providers, run>>

Size ==
  \E name \in RefNames(remote, last), fault \in Faults :
    LET out == SizeOutcome(folder, remote, name, fault)
    IN  /\ last' = Done("size", "base", name, name, NoContent, fault, out)
        /\ remote' = out.remote
        /\ UNCHANGED <<folder, providers, run>>

Url ==
  \E variant \in Variants, name \in RefNames(remote, last),
     fault \in {"none", "network"} :
    LET out == UrlOutcome(variant, folder, remote, name, fault)
    IN  /\ last' = Done("url", variant, name, name, NoContent, fault, out)
        /\ remote' = out.remote
        /\ UNCHANGED <<folder, providers, run>>

\* _extract_public_id applied to a stored value
Extract ==
  \E name \in ExtractNames :
    /\ last' = Done("extract", "base", name, name, NoContent, "none",
                    Outcome(ExtractPublicId(folder, name), FALSE, NoneVal,
                            <<>>, remote))
    /\ UNCHANGED <<folder, remote, providers, run>>

\* _extract_public_id applied again, to the identifier it has just returned
ExtractAgain ==
  /\ last.op = "extract"
  /\ ~Falsy(last.result)
  /\ last' = Done("extract", "base", last.result, last.orig, NoContent, "none",
                  Outcome(ExtractPublicId(folder, last.result), FALSE, NoneVal,
                          <<>>, remote))
  /\ UNCHANGED <<folder, remote, providers, run>>

Next ==
  \/ GetAvailableName
  \/ SaveDirect
  \/ SaveAvailable
  \/ Delete
  \/ Exists
  \/ Size
  \/ Url

Spec == Init /\ [][Next]_vars

\* the table as the script finds it
InitCname ==
  /\ folder = media
  /\ remote = <<>>
  /\ last = Done("init", "base", NoneVal, NoneVal, NoContent, "none",
                 Outcome(NoneVal, FALSE, NoneVal, <<>>, <<>>))
  /\ providers \in Tables
  /\ run = NoRun

\* one run of the script
RunUpdateCnameRecords ==
  /\ run.n < MaxRuns
  /\ LET out == UpdateCnameRecords(providers)
     IN  /\ providers' = out.providers
         /\ run' = [n |-> run.n + 1, writes |-> out.writes,
                    total |-> run.total + Len(out.writes)]
  /\ UNCHANGED <<folder, remote, last>>

\* the script run on a table, and run again
SpecCname == InitCname /\ [][RunUpdateCnameRecords]_vars

NextExtract ==
  \/ Extract
  \/ ExtractAgain

\* identifier extraction on its own: the folder is configured, then
\* _extract_public_id is applied to stored values and to its own results
SpecExtract == Init /\ [][NextExtract]_vars

\* ------------------------------------------------------------------------
\* Properties

\* an identifier as save produces it: no "." and no "/"
PlainId(id) == ~Contains(id, <<".">>) /\ ~Contains(id, <<"/">>)

\* the three historical formats of a reference to id under folder F
ThreeFormats(h, F, id) ==
  {FolderPrefixed(F, id), HostedUrl(h, F, id), BareFilename(id)}

\* C1, as stated: the folder-prefixed id, the hosted URL on any host and
\* the bare filename of "abc123" all extract to "F/abc123"
C1_AnyHost ==
  last.op = "extract" =>
    \A h \in Hosts :
      last.name \in ThreeFormats(h, folder, abc123)
        => last.result = Join(folder, abc123)

\* C1, amended: for a plain identifier that does not begin with the folder's
\* name, the folder-prefixed id, a hosted URL containing "cloudinary.com"
\* and the bare filename all extract to "F/id"
C1_ExtractStable ==
  last.op = "extract" =>
    \A h \in Hosts, id \in Ids :
      /\ PlainId(id) /\ ~StartsWith(id, folder)
      /\ Contains(h, CloudinaryHost)
      /\ last.name \in ThreeFormats(h, folder, id)
      => last.result = Join(folder, id)

C1_Witness ==
  /\ last.op = "extract"
  /\ \E h \in Hosts :
       /\ Contains(h, CloudinaryHost)
       /\ last.name = HostedUrl(h, folder, abc123)
  /\ last.result = Join(folder, abc123)

\* identifiers _save generates from an original filename
DirectIds == {GeneratePublicId(n, u) : n \in FileNames, u \in UniqueIds}

\* identifiers _save generates from a name get_available_name returned
AvailableIds == {GeneratePublicId(d, u) : d \in DirectIds, u \in UniqueIds}

SavedIds == DirectIds \cup AvailableIds

\* every reference a successful save can return under folder F
SavedRefs(F) == {Join(F, id) : id \in SavedIds}

\* C2: a successful save of a filename returns "{folder}/{identifier}", the
\* identifier being the sanitized stem, "_" and one 8-character suffix, with
\* no path separator and no extension, whether _save got the filename
\* directly or the name get_available_name made of it
C2_SaveReference ==
  (last.op = "save" /\ ~last.raised) =>
    \E u \in UniqueIds :
      LET identifier == SplitExt(SanitizeFilename(last.orig))[1] \o <<"_">> \o u
      IN  /\ Len(u) = SuffixLen
          /\ last.result = Join(folder, identifier)
          /\ PlainId(identifier)

\* C3: with a remote service that answers truthfully, exists(r) is true
\* right after the save that returned r, and false right after a delete(r)
\* that reached the service
C3_SaveExistsDelete ==
  [][/\ (/\ last.op = "save" /\ ~last.raised
         /\ last'.op = "exists" /\ last'.name = last.result
         /\ last'.fault = "none")
          => last'.result = TRUE
     /\ (/\ last.op = "delete" /\ last.fault = "none"
         /\ last.name \in SavedRefs(folder)
         /\ last'.op = "exists" /\ last'.name = last.name
         /\ last'.fault = "none")
          => last'.result = FALSE]_vars

C3_Witness ==
  /\ last.op = "exists" /\ last.fault = "none"
  /\ last.name \in SavedRefs(folder)
  /\ last.calls # <<>>
  /\ last.result = FALSE

\* C4: delete never raises, whatever the reference and whatever the remote
\* service answers (success, not found, any other failure); a second
\* delete of the same reference returns normally as the first did
C4_DeleteNeverRaises ==
  last.op = "delete" => ~last.raised /\ last.result = NoneVal

\* a delete of a saved reference that the service no longer holds, answered
\* with "not found"
C4_Witness ==
  /\ last.op = "delete" /\ last.fault = "notfound"
  /\ last.name \in SavedRefs(folder)
  /\ last.name \notin DOMAIN remote
  /\ last.calls # <<>>
  /\ ~last.raised

\* C5: for an empty or absent reference url returns "", exists false,
\* size 0 and delete does nothing, no remote call being issued, for the
\* base, media and thumbnail classes
C5_AbsentReference ==
  [][(last'.op \in {"url", "exists", "size", "delete"} /\ Falsy(last'.name)) =>
       /\ last'.calls = <<>>
       /\ ~last'.raised
       /\ remote' = remote
       /\ last'.op = "url" => last'.result = <<>>
       /\ last'.op = "exists" => last'.result = FALSE
       /\ last'.op = "size" => last'.result = 0
       /\ last'.op = "delete" => last'.result = NoneVal]_vars

C5_Witness ==
  /\ last.op = "url" /\ last.variant = "thumbnail"
  /\ last.name = <<>>
  /\ last.result = <<>>
  /\ last.calls = <<>>

\* C6: a save whose upload fails has issued one upload, raises an error
\* that wraps the remote error and returns no reference; every upload
\* carries overwrite, unique_filename and use_filename false and the
\* configured folder
C6_UploadFailure ==
  last.op = "save" =>
    /\ Len(last.calls) = 1
    /\ last.calls[1].api = "upload"
    /\ last.calls[1].options.overwrite = FALSE
    /\ last.calls[1].options.unique_filename = FALSE
    /\ last.calls[1].options.use_filename = FALSE
    /\ last.calls[1].options.folder = folder
    /\ last.fault # "none" =>
         /\ last.raised
         /\ last.result = NoneVal
         /\ last.error.cause = last.fault
         /\ last.error.name = last.name

C6_Witness ==
  /\ last.op = "save" /\ last.fault = "network"
  /\ last.raised
  /\ Len(last.calls) = 1

\* a lookup that fails: the service raises, or truthfully reports that it
\* does not hold the resource
LookupFails ==
  \/ last.fault # "none"
  \/ ExtractPublicId(folder, last.name) \notin DOMAIN remote

\* C7: for a non-empty reference and any remote failure exists returns
\* false, size 0 and url "", without raising and with at most one remote
\* call; only save lets a remote failure reach its caller
C7_FailuresSwallowed ==
  /\ last.raised => last.op = "save"
  /\ (last.op \in {"exists", "size", "url"} /\ ~Falsy(last.name)) =>
       /\ Len(last.calls) <= 1
       /\ (last.op = "exists" /\ LookupFails) => last.result = FALSE
       /\ (last.op = "size" /\ LookupFails) => last.result = 0
       /\ (last.op = "url" /\ last.fault # "none") => last.result = <<>>

C7_Witness ==
  /\ last.op = "exists" /\ last.fault = "network"
  /\ last.name \in DOMAIN remote
  /\ last.result = FALSE
  /\ Len(last.calls) = 1

\* the format the upload call carries (NoneVal: none)
SentFormat(call) ==
  IF "format" \in DOMAIN call.options THEN call.options.format ELSE NoneVal

\* the format C8 describes: the declared media type's subtype when the
\* allow-list has it, else the lower-cased extension when the allow-list
\* has it, else none
ClaimedFormat(name, content) ==
  LET content_type == ContentType(content)
      parts == SplitSlash(content_type)
      subtype == parts[Len(parts)]
      ext == LStripDot(Lower(SplitExt(name)[2]))
  IN  IF content_type # NoneVal /\ Len(parts) >= 2 /\ subtype \in FormatKeys
        THEN format_mapping[subtype]
      ELSE IF ext \in FormatKeys THEN format_mapping[ext]
      ELSE NoneVal

\* C8: save sends the format of the declared media type when its subtype is
\* on the allow-list (image/jpeg giving jpg), else the one of the file
\* extension, else none; it is one of jpg, png, gif, webp, svg or absent
C8_FormatChoice ==
  last.op = "save" =>
    /\ SentFormat(last.calls[1]) = ClaimedFormat(last.name, last.content)
    /\ SentFormat(last.calls[1]) \in FormatValues \cup {NoneVal}

BareName(name) == ~Falsy(name) /\ ~Contains(name, <<"/">>)

\* C11: for a non-empty stored value without a path separator, also one
\* whose text merely begins with the folder's name, _extract_public_id
\* returns "{folder}/" followed by the name without its extension
C11_BareNamePrefixed ==
  (last.op = "extract" /\ BareName(last.name)) =>
    /\ last.result = Join(folder, SplitExt(last.name)[1])
    /\ StartsWith(last.result, folder \o <<"/">>)

\* the last path segment of a stored value
LastSegment(name) == SplitSlash(name)[Len(SplitSlash(name))]

\* number of "." in s
DotCount(s) == Cardinality({i \in 1..Len(s) : s[i] = "."})

\* the last segment has, its leading dots aside, at most one "."
SingleExtension(name) == DotCount(LStripDot(LastSegment(name))) <= 1

\* C12, as stated: for every non-empty stored value, names with more than
\* one "." included, extracting the extracted identifier again returns it
\* unchanged
C12_Idempotent ==
  [][(/\ last.op = "extract" /\ ~Falsy(last.name)
      /\ last'.op = "extract" /\ last'.name = last.result)
       => last'.result = last.result]_vars

\* C12, amended: for every non-empty stored value whose last path segment
\* has, leading dots aside, at most one ".", extracting the extracted
\* identifier again returns it unchanged
C12_IdempotentSingleExtension ==
  [][(/\ last.op = "extract" /\ ~Falsy(last.name)
      /\ SingleExtension(last.name)
      /\ last'.op = "extract" /\ last'.name = last.result)
       => last'.result = last.result]_vars

\* a hosted URL was extracted and its identifier extracted again
C12_Witness ==
  /\ last.op = "extract"
  /\ \E h \in Hosts :
       /\ Contains(h, CloudinaryHost)
       /\ last.orig = HostedUrl(h, folder, abc123)
  /\ last.name = Join(folder, abc123)
  /\ last.result = last.name

\* the update_fields of the saves a run issued for the provider pk
SavesOf(writes, pk) ==
  {i \in 1..Len(writes) : writes[i].pk = pk}

\* the fields among cname_target and txt_record_name whose stored value
\* differs from the generated one
StaleFields(row) ==
  (IF row.cname_target # generate_unique_cname_target(row)
     THEN {"cname_target"} ELSE {})
    \cup (IF row.txt_record_name # generate_unique_txt_record_name(row)
            THEN {"txt_record_name"} ELSE {})

\* C13: a run saves, for each provider with a non-empty custom domain, just
\* the fields among cname_target and txt_record_name that differ from the
\* generated values (no save when none differs, no other field written) and
\* leaves both equal to the generated values; a provider without a custom
\* domain is not written; a run that follows a run issues no save
C13_MinimalIdempotent ==
  [][run'.n = run.n + 1 =>
       /\ \A pk \in DOMAIN providers :
            LET row == providers[pk]
                saves == SavesOf(run'.writes, pk)
            IN  IF HasCustomDomain(row)
                  THEN /\ providers'[pk].cname_target
                            = generate_unique_cname_target(row)
                       /\ providers'[pk].txt_record_name
                            = generate_unique_txt_record_name(row)
                       /\ providers'[pk].custom_domain = row.custom_domain
                       /\ providers'[pk].unique_booking_url = row.unique_booking_url
                       /\ Cardinality(saves) = IF StaleFields(row) = {} THEN 0 ELSE 1
                       /\ \A i \in saves :
                            {run'.writes[i].update_fields[j] :
                               j \in 1..Len(run'.writes[i].update_fields)}
                              = StaleFields(row)
                  ELSE providers'[pk] = row /\ saves = {}
       /\ run.n >= 1 => run'.writes = <<>>]_vars

\* a second run that saved nothing after a first run that saved
C13_Witness ==
  /\ run.n = 2
  /\ run.total > 0
  /\ run.writes = <<>>
  /\ \E pk \in DOMAIN providers : HasCustomDomain(providers[pk])
  /\ \E pk \in DOMAIN providers : ~HasCustomDomain(providers[pk])

====
